---- MODULE Spec2Model ----
(***************************************************************************)
(* ADS1256 capture programs of RaspberrypiPowerPole:                       *)
(*   - ads1256_logger.py : interrupt-driven capture (drdy_callback)        *)
(*   - Capture.py        : polling capture (wait_drdy / read_all_channels) *)
(*                                                                         *)
(* Every execution context (the main thread, context 0, and the threads    *)
(* the GPIO library runs drdy_callback on, contexts 1..NumCallbacks) owns  *)
(* a queue of primitive operations still to execute.  The driver functions *)
(* of the source are operators that return the primitive operations of     *)
(* their body, in source order; one action executes one kind of primitive. *)
(***************************************************************************)
EXTENDS Integers, Sequences, FiniteSets, TLC

\* ------------------------------------------------------------------ bounds
MaxClock == 5
MaxStart == 0
MaxRecords == 4
NumCallbacks == 2
MaxSpinCount == 2
MaxTrace == 17

\* --------------------------------------------------------------- constants
RST_PIN == 18
CS_PIN == 22
LOW == 0
HIGH == 1

CMD_WAKEUP == 0
CMD_RDATA == 1
CMD_RDATAC == 3
CMD_WREG == 80
CMD_SYNC == 252
CMD_RESET == 254

REG_STATUS == 0
REG_MUX == 1
REG_ADCON == 2
REG_DRATE == 3

GAIN == 1
DRATE_3750SPS == 192
DRATE_1000SPS == 161

CHANNELS == << <<0, 1>>, <<2, 3>>, <<4, 5>> >>
CAPTURE_TIME == 5

Main == 0
Callbacks == 1..NumCallbacks
Ctx == {Main} \cup Callbacks

\* ------------------------------------------------------- integer arithmetic
RECURSIVE BitOr(_, _)
\* Python's a | b on non-negative integers.
BitOr(a, b) ==
    IF a = 0 THEN b
    ELSE IF b = 0 THEN a
    ELSE (IF (a % 2 = 1) \/ (b % 2 = 1) THEN 1 ELSE 0)
         + 2 * BitOr(a \div 2, b \div 2)

\* Python's a << n.
ShiftLeft(a, n) == a * (2 ^ n)

\* A variant of the decoding that leaves the 24-bit value unsigned.
SignExtendUnsigned(raw) ==
    BitOr(BitOr(ShiftLeft(raw[1], 16), ShiftLeft(raw[2], 8)), raw[3])

\* value = (raw[0]<<16)|(raw[1]<<8)|raw[2]; if value & 0x800000: value -= 0x1000000
SignExtend(raw) ==
    LET value == BitOr(BitOr(ShiftLeft(raw[1], 16), ShiftLeft(raw[2], 8)), raw[3])
    IN  IF (value \div 8388608) % 2 = 1 THEN value - 16777216 ELSE value

\* The number of bits of x above a 24-bit significand: x < 2^(24 + Excess(x)).
RECURSIVE Excess(_)
Excess(x) == IF x < 16777216 THEN 0 ELSE 1 + Excess(x \div 2)

\* struct.pack's "f" on a non-negative integer: the nearest value with a 24-bit
\* significand, ties to the even significand (exact below 2^24).
Float32(x) ==
    LET quantum == 2 ^ Excess(x)
        down == (x \div quantum) * quantum
        rest == x - down
    IN  IF 2 * rest < quantum THEN down
        ELSE IF 2 * rest > quantum THEN down + quantum
        ELSE IF (x \div quantum) % 2 = 0 THEN down ELSE down + quantum

\* ------------------------------------------------------ primitive operations
Op(name) == [op |-> name, arg |-> <<>>]
GPIO_output(pin, level) == [op |-> "gpio_out", arg |-> <<pin, level>>]
spi_xfer2(data) == [op |-> "xfer", arg |-> data]
time_sleep(us) == [op |-> "sleep", arg |-> <<us>>]

\* ---------------------------------------------- ads1256_logger.py: driver
logger_write_reg(reg, val) ==
    << GPIO_output(CS_PIN, LOW),
       spi_xfer2(<<BitOr(CMD_WREG, reg), 0, val>>),
       GPIO_output(CS_PIN, HIGH),
       time_sleep(1000) >>

logger_send_cmd(cmd) ==
    << GPIO_output(CS_PIN, LOW),
       spi_xfer2(<<cmd>>),
       GPIO_output(CS_PIN, HIGH),
       time_sleep(1000) >>

set_mux_fast(pos, neg) ==
    << GPIO_output(CS_PIN, LOW),
       spi_xfer2(<<BitOr(CMD_WREG, REG_MUX), 0, BitOr(ShiftLeft(pos, 4), neg)>>),
       GPIO_output(CS_PIN, HIGH) >>

read_continuous_raw ==
    << GPIO_output(CS_PIN, LOW),
       spi_xfer2(<<0, 0, 0>>),
       GPIO_output(CS_PIN, HIGH),
       Op("decode") >>

\* A variant of ads1256_init that writes the data rate before the reset command.
logger_ads1256_init_early_drate ==
    << GPIO_output(RST_PIN, LOW), time_sleep(100000),
       GPIO_output(RST_PIN, HIGH), time_sleep(100000) >>
    \o logger_write_reg(REG_DRATE, DRATE_3750SPS)
    \o logger_send_cmd(CMD_RESET) \o << time_sleep(100000) >>
    \o logger_write_reg(REG_STATUS, 4)
    \o logger_write_reg(REG_ADCON, GAIN)
    \o logger_send_cmd(CMD_RDATAC)

logger_ads1256_init ==
    << GPIO_output(RST_PIN, LOW), time_sleep(100000),
       GPIO_output(RST_PIN, HIGH), time_sleep(100000) >>
    \o logger_send_cmd(CMD_RESET) \o << time_sleep(100000) >>
    \o logger_write_reg(REG_STATUS, 4)
    \o logger_write_reg(REG_ADCON, GAIN)
    \o logger_write_reg(REG_DRATE, DRATE_3750SPS)
    \o logger_send_cmd(CMD_RDATAC)

\* A variant of the with-lock block that never takes the lock.
drdy_callback_unlocked ==
    read_continuous_raw
    \o << Op("stamp"), Op("write_fii"), Op("incr_channel"), Op("call_set_mux"),
          Op("release") >>

\* The body of drdy_callback after the running check: the with-lock block.
drdy_callback_locked ==
    << Op("acquire") >>
    \o read_continuous_raw
    \o << Op("stamp"), Op("write_fii"), Op("incr_channel"), Op("call_set_mux"),
          Op("release") >>

drdy_callback == << Op("check_running") >> \o drdy_callback_locked

\* ------------------------------------------------------ Capture.py: driver
Capture_write_reg(reg, value) ==
    << GPIO_output(CS_PIN, LOW),
       spi_xfer2(<<BitOr(CMD_WREG, reg), 0, value>>),
       GPIO_output(CS_PIN, HIGH),
       time_sleep(2000) >>

Capture_send_cmd(cmd) ==
    << GPIO_output(CS_PIN, LOW),
       spi_xfer2(<<cmd>>),
       GPIO_output(CS_PIN, HIGH),
       time_sleep(2000) >>

read_data ==
    << Op("wait_drdy"),
       GPIO_output(CS_PIN, LOW),
       spi_xfer2(<<CMD_RDATA>>),
       time_sleep(10),
       spi_xfer2(<<0, 0, 0>>),
       GPIO_output(CS_PIN, HIGH),
       Op("decode") >>

Capture_ads1256_init ==
    << GPIO_output(RST_PIN, LOW), time_sleep(100000),
       GPIO_output(RST_PIN, HIGH), time_sleep(100000) >>
    \o Capture_send_cmd(CMD_RESET) \o << time_sleep(100000) >>
    \o Capture_write_reg(REG_STATUS, 4)
    \o Capture_write_reg(REG_ADCON, GAIN)
    \o Capture_write_reg(REG_DRATE, DRATE_1000SPS)

\* A variant of the channel selection without the SYNC command.
set_diff_channel_no_sync(pos, neg) ==
    Capture_write_reg(REG_MUX, BitOr(ShiftLeft(pos, 4), neg))
    \o Capture_send_cmd(CMD_WAKEUP)

set_diff_channel(pos, neg) ==
    Capture_write_reg(REG_MUX, BitOr(ShiftLeft(pos, 4), neg))
    \o Capture_send_cmd(CMD_SYNC)
    \o Capture_send_cmd(CMD_WAKEUP)

\* A variant of the cycle that reads the second pair first.
read_all_channels_swapped ==
    set_diff_channel(2, 3) \o read_data
    \o set_diff_channel(0, 1) \o read_data
    \o set_diff_channel(4, 5) \o read_data

read_all_channels ==
    set_diff_channel(0, 1) \o read_data
    \o set_diff_channel(2, 3) \o read_data
    \o set_diff_channel(4, 5) \o read_data

\* ----------------------------------------------------------- main programs
\* time.sleep(CAPTURE_TIME): note the wake-up time, then block until it.
sleep_capture == << Op("sleep_begin"), Op("sleep_wait") >>

\* A variant of the try-body that never removes the event detection.
logger_try_keep_detect ==
    logger_ads1256_init
    \o << Op("open") >>
    \o set_mux_fast(CHANNELS[1][1], CHANNELS[1][2])
    \o << Op("set_start"), Op("add_event_detect") >>
    \o sleep_capture
    \o << Op("running_false"), Op("bf_close") >>
    \o << [op |-> "find_usb", arg |-> <<2>>], Op("copy"), Op("eject") >>

\* try-body of ads1256_logger.py.  find_usb carries the number of operations
\* of its "if usb_mount:" branch, skipped when no drive is found.
logger_try ==
    logger_ads1256_init
    \o << Op("open") >>
    \o set_mux_fast(CHANNELS[1][1], CHANNELS[1][2])
    \o << Op("set_start"), Op("add_event_detect") >>
    \o sleep_capture
    \o << Op("running_false"), Op("remove_event_detect"), Op("bf_close") >>
    \o << [op |-> "find_usb", arg |-> <<2>>], Op("copy"), Op("eject") >>

logger_except == << Op("running_false"), Op("print") >>

logger_finally == << Op("spi_close"), Op("gpio_cleanup"), Op("exit") >>

logger_main == logger_try \o logger_finally

\* Body of "while (time.time() - start_time) < CAPTURE_TIME".
Capture_loop_body ==
    << Op("stamp") >> \o read_all_channels \o << Op("write_fiii") >>

\* try-body of Capture.py; bf_close is the exit of "with open(...) as bf".
Capture_try ==
    Capture_ads1256_init
    \o << Op("set_start"), Op("open"), Op("loop_check"), Op("bf_close"),
          Op("write_meta") >>
    \o << [op |-> "find_usb", arg |-> <<3>>], Op("copy"), Op("copy"), Op("eject") >>

Capture_except == << Op("print") >>

Capture_finally == << Op("spi_close"), Op("gpio_cleanup"), Op("exit") >>

Capture_main == Capture_try \o Capture_finally

FinallyOps == {"spi_close", "gpio_cleanup", "exit"}

\* ------------------------------------------------------------------- state
VARIABLES
    variant,        \* "irq": ads1256_logger.py runs; "poll": Capture.py runs
    clock,          \* time.time(), in ticks
    q,              \* per context: the primitive operations still to execute
    loc,            \* per context: locals (t, the samples read, last bus reply)
    lock,           \* threading.Lock: the set of contexts holding it (<= 1)
    exc,            \* exception unwinding the main thread: none | kbd | err
    ended,          \* the main program has left its finally block
    cs, rst, drdy,  \* levels of the CS, RST and DRDY lines
    mux,            \* the device's MUX register
    stage,          \* how far the device is through a channel selection:
                    \* mux (MUX written), sync, wakeup, read, or other
    spi, gpio,      \* spi: open | closed;  gpio: ready | cleaned
    bf, log,        \* the log file handle (none | open | closed), its records
    running, channel_index, start_time,
    wake,           \* when time.sleep(CAPTURE_TIME) returns
    registered,     \* GPIO.add_event_detect is in force
    failed,         \* a bus transfer has raised
    spins,          \* consecutive polls of a high DRDY line in wait_drdy
    edges,          \* the samples the callbacks have read: <<t, raw>>
    exports,        \* number of calls of find_usb_mount / find_and_mount_usb
    hwlog           \* what the device has seen, in order: the levels of its
                    \* reset line, the waits, the transfers (the first MaxTrace)

ctl == <<q, loc, lock, exc>>
hw == <<cs, rst, drdy, mux, stage, spi, gpio>>
file == <<bf, log>>
sess == <<running, channel_index, start_time, wake, registered>>
ghost == <<failed, spins, edges, exports, hwlog>>
vars == <<variant, clock, ended, ctl, hw, file, sess, ghost>>

NoLocals == [t |-> 0, s |-> <<>>, rx |-> <<>>]

\* The MUX register value selecting a differential pair.
MuxOf(pair) == BitOr(ShiftLeft(pair[1], 4), pair[2])

\* The device's conversion result for the selected pair, as the three bytes
\* it shifts out: 100 on AIN0-AIN1, -200 on AIN2-AIN3, 300 on AIN4-AIN5.
Conversion(m) ==
    CASE m = MuxOf(<<0, 1>>) -> <<0, 0, 100>>
      [] m = MuxOf(<<2, 3>>) -> <<255, 255, 56>>
      [] m = MuxOf(<<4, 5>>) -> <<0, 1, 44>>
      [] OTHER -> <<0, 0, 0>>

Init ==
    /\ variant \in {"irq", "poll"}
    /\ clock = 0
    /\ q = [c \in Ctx |-> IF c = Main
                          THEN (IF variant = "irq" THEN logger_main ELSE Capture_main)
                          ELSE <<>>]
    /\ loc = [c \in Ctx |-> NoLocals]
    /\ lock = {}
    /\ exc = "none"
    /\ ended = FALSE
    /\ cs = HIGH
    /\ rst = HIGH
    /\ drdy = HIGH
    /\ mux = MuxOf(<<0, 1>>)
    /\ stage = "other"
    /\ spi = "open"
    /\ gpio = "ready"
    /\ bf = "none"
    /\ log = <<>>
    /\ running = TRUE
    /\ channel_index = 0
    /\ start_time = 0
    /\ wake = 0
    /\ registered = FALSE
    /\ failed = FALSE
    /\ spins = 0
    /\ edges = <<>>
    /\ exports = 0
    /\ hwlog = <<>>

\* ---------------------------------------------------------------- helpers
\* hwlog with one more thing the device has seen.
Record(ev, n, data) ==
    IF Len(hwlog) < MaxTrace
    THEN Append(hwlog, [ev |-> ev, n |-> n, data |-> data])
    ELSE hwlog

Has(c, name) == q[c] # <<>> /\ Head(q[c]).op = name
Arg(c) == Head(q[c]).arg
Pop(c) == q' = [q EXCEPT ![c] = Tail(@)]

\* What the main thread still runs once an exception of the given kind leaves
\* the try-body: the exit of an open "with" block, the matching except
\* clause, the finally block.
Unwind(kind) ==
    (IF variant = "poll" /\ bf = "open" THEN << Op("bf_close") >> ELSE <<>>)
    \o (IF kind = "kbd"
        THEN (IF variant = "irq" THEN logger_except ELSE Capture_except)
        ELSE <<>>)
    \o (IF variant = "irq" THEN logger_finally ELSE Capture_finally)

\* An exception raised in context c.  In the main thread it unwinds to the
\* handlers; in a callback it leaves the "with lock" block (releasing the
\* lock) and ends the callback in the GPIO library's event thread.
Throw(c, kind) ==
    /\ q' = [q EXCEPT ![c] = IF c = Main THEN Unwind(kind) ELSE <<>>]
    /\ loc' = [loc EXCEPT ![c] = NoLocals]
    /\ lock' = lock \ {c}
    /\ exc' = IF c = Main THEN kind ELSE exc

\* The main thread is inside the try-body.
InTry ==
    /\ exc = "none"
    /\ q[Main] # <<>>
    /\ Head(q[Main]).op \notin FinallyOps

\* ------------------------------------------------------- the device (HAL)
\* The MUX register after the device has received tx.
DeviceMux(tx) ==
    IF Len(tx) = 3 /\ tx[1] = BitOr(CMD_WREG, REG_MUX) THEN tx[3]
    ELSE IF tx = << CMD_RESET >> THEN MuxOf(<<0, 1>>)
    ELSE mux

\* The DRDY line after tx: reading the result, or restarting the conversion
\* with SYNC, takes it back high.
DeviceDrdy(tx) ==
    IF tx = <<0, 0, 0>> \/ tx = << CMD_SYNC >> THEN HIGH ELSE drdy

\* The selection stage after tx: a MUX write starts a selection, SYNC and
\* then WAKEUP carry it on, reading a result ends it.
DeviceStage(tx) ==
    IF Len(tx) = 3 /\ tx[1] = BitOr(CMD_WREG, REG_MUX) THEN "mux"
    ELSE IF tx = << CMD_SYNC >> THEN (IF stage = "mux" THEN "sync" ELSE "other")
    ELSE IF tx = << CMD_WAKEUP >> THEN (IF stage = "sync" THEN "wakeup" ELSE "other")
    ELSE IF tx = << CMD_RDATA >> THEN stage
    ELSE IF tx = <<0, 0, 0>> THEN "read"
    ELSE "other"

\* ------------------------------------------- primitives of every context
\* GPIO.output(pin, level)
GpioOut(c) ==
    /\ Has(c, "gpio_out")
    /\ gpio = "ready"
    /\ cs' = IF Arg(c)[1] = CS_PIN THEN Arg(c)[2] ELSE cs
    /\ rst' = IF Arg(c)[1] = RST_PIN THEN Arg(c)[2] ELSE rst
    /\ hwlog' = IF Arg(c)[1] = RST_PIN THEN Record("rst", Arg(c)[2], <<>>)
                ELSE hwlog
    /\ Pop(c)
    /\ UNCHANGED <<variant, clock, ended, loc, lock, exc, drdy, mux, stage, spi,
                   gpio, file, sess, failed, spins, edges, exports>>

\* GPIO.output after GPIO.cleanup() raises.
GpioOutCleaned(c) ==
    /\ Has(c, "gpio_out")
    /\ gpio = "cleaned"
    /\ Throw(c, "err")
    /\ UNCHANGED <<variant, clock, ended, hw, file, sess, ghost>>

\* spi.xfer2(tx): the device takes tx; the reply to three zero bytes is the
\* conversion result of the selected pair.
Xfer(c) ==
    /\ Has(c, "xfer")
    /\ spi = "open"
    /\ mux' = DeviceMux(Arg(c))
    /\ drdy' = DeviceDrdy(Arg(c))
    /\ stage' = DeviceStage(Arg(c))
    /\ loc' = [loc EXCEPT ![c].rx = IF Arg(c) = <<0, 0, 0>> THEN Conversion(mux) ELSE @]
    /\ hwlog' = Record("tx", 0, Arg(c))
    /\ Pop(c)
    /\ UNCHANGED <<variant, clock, ended, lock, exc, cs, rst, spi, gpio, file,
                   sess, failed, spins, edges, exports>>

\* spi.xfer2 raises (a bus fault); injected at most once per run.
XferFault(c) ==
    /\ Has(c, "xfer")
    /\ spi = "open"
    /\ bf = "open"
    /\ ~failed
    /\ failed' = TRUE
    /\ Throw(c, "err")
    /\ UNCHANGED <<variant, clock, ended, hw, file, sess, spins, edges, exports,
                   hwlog>>

\* spi.xfer2 after spi.close() raises.
XferClosed(c) ==
    /\ Has(c, "xfer")
    /\ spi = "closed"
    /\ Throw(c, "err")
    /\ UNCHANGED <<variant, clock, ended, hw, file, sess, ghost>>

\* time.sleep(s) of a driver function or of ads1256_init: the device sees
\* nothing for that long.
Sleep(c) ==
    /\ Has(c, "sleep")
    /\ hwlog' = Record("wait", Arg(c)[1], <<>>)
    /\ Pop(c)
    /\ UNCHANGED <<variant, clock, ended, loc, lock, exc, hw, file, sess, failed,
                   spins, edges, exports>>

\* Statements with no effect on the modelled state: print, the sidecar file,
\* shutil.copy, eject_usb.
Skip(c) ==
    /\ q[c] # <<>>
    /\ Head(q[c]).op \in {"print", "write_meta", "copy", "eject"}
    /\ Pop(c)
    /\ UNCHANGED <<variant, clock, ended, loc, lock, exc, hw, file, sess, ghost>>

\* value = (raw[0]<<16)|(raw[1]<<8)|raw[2] ... return value
Decode(c) ==
    /\ Has(c, "decode")
    /\ loc' = [loc EXCEPT ![c].s = Append(@, SignExtend(loc[c].rx))]
    /\ Pop(c)
    /\ UNCHANGED <<variant, clock, ended, lock, exc, hw, file, sess, ghost>>

\* A variant of the elapsed time with its operands exchanged.
ElapsedSwapped(now, start) == start - now

\* time.time() - start_time
Elapsed(now, start) == now - start

\* t = time.time() - start_time
Stamp(c) ==
    /\ Has(c, "stamp")
    /\ loc' = [loc EXCEPT ![c].t = Elapsed(clock, start_time)]
    /\ edges' = IF c # Main
                THEN Append(edges, <<Elapsed(clock, start_time), loc[c].s[1]>>)
                ELSE edges
    /\ Pop(c)
    /\ UNCHANGED <<variant, clock, ended, lock, exc, hw, file, sess, failed,
                   spins, exports, hwlog>>

\* ------------------------------------------------- drdy_callback primitives
\* A variant of the increment that steps over a channel.
NextChannelSkip(i) == (i + 2) % Len(CHANNELS)

\* channel_index = (channel_index + 1) % len(CHANNELS)
NextChannel(i) == (i + 1) % Len(CHANNELS)

\* A falling edge of DRDY while event detection is in force: the GPIO library
\* calls drdy_callback on one of its free contexts.
Edge(c) ==
    /\ variant = "irq"
    /\ registered
    /\ q[c] = <<>>
    /\ \A d \in Callbacks : d < c => q[d] # <<>>
    /\ Len(log) < MaxRecords
    /\ q' = [q EXCEPT ![c] = drdy_callback]
    /\ UNCHANGED <<variant, clock, ended, loc, lock, exc, hw, file, sess, ghost>>

\* if not running: return
CheckRunning(c) ==
    /\ Has(c, "check_running")
    /\ q' = [q EXCEPT ![c] = IF running THEN Tail(@) ELSE <<>>]
    /\ UNCHANGED <<variant, clock, ended, loc, lock, exc, hw, file, sess, ghost>>

\* with lock: (entry)
Acquire(c) ==
    /\ Has(c, "acquire")
    /\ lock = {}
    /\ lock' = {c}
    /\ Pop(c)
    /\ UNCHANGED <<variant, clock, ended, loc, exc, hw, file, sess, ghost>>

\* bf.write(struct.pack("<fii", t, channel_index, raw))
WriteFii(c) ==
    /\ Has(c, "write_fii")
    /\ bf = "open"
    /\ log' = Append(log, <<Float32(loc[c].t), channel_index, loc[c].s[1]>>)
    /\ Pop(c)
    /\ UNCHANGED <<variant, clock, ended, loc, lock, exc, hw, bf, sess, ghost>>

\* bf.write on a closed file raises.
WriteClosed(c) ==
    /\ q[c] # <<>>
    /\ Head(q[c]).op \in {"write_fii", "write_fiii"}
    /\ bf # "open"
    /\ Throw(c, "err")
    /\ UNCHANGED <<variant, clock, ended, hw, file, sess, ghost>>

IncrChannel(c) ==
    /\ Has(c, "incr_channel")
    /\ channel_index' = NextChannel(channel_index)
    /\ Pop(c)
    /\ UNCHANGED <<variant, clock, ended, loc, lock, exc, hw, file, running,
                   start_time, wake, registered, ghost>>

\* set_mux_fast(*CHANNELS[channel_index]): the call, with its arguments read.
CallSetMux(c) ==
    /\ Has(c, "call_set_mux")
    /\ q' = [q EXCEPT ![c] =
               set_mux_fast(CHANNELS[channel_index + 1][1],
                            CHANNELS[channel_index + 1][2]) \o Tail(@)]
    /\ UNCHANGED <<variant, clock, ended, loc, lock, exc, hw, file, sess, ghost>>

\* with lock: (exit); the callback returns.
Release(c) ==
    /\ Has(c, "release")
    /\ lock' = lock \ {c}
    /\ loc' = [loc EXCEPT ![c] = NoLocals]
    /\ Pop(c)
    /\ UNCHANGED <<variant, clock, ended, exc, hw, file, sess, ghost>>

\* --------------------------------------------- primitives of the main thread
\* bf = open(bin_file, "wb")
Open ==
    /\ Has(Main, "open")
    /\ bf' = "open"
    /\ log' = <<>>
    /\ Pop(Main)
    /\ UNCHANGED <<variant, clock, ended, loc, lock, exc, hw, sess, ghost>>

\* start_time = time.time()
SetStart ==
    /\ Has(Main, "set_start")
    /\ start_time' = clock
    /\ Pop(Main)
    /\ UNCHANGED <<variant, clock, ended, loc, lock, exc, hw, file, running,
                   channel_index, wake, registered, ghost>>

\* GPIO.add_event_detect(DRDY_PIN, GPIO.FALLING, callback=drdy_callback)
AddEventDetect ==
    /\ Has(Main, "add_event_detect")
    /\ registered' = TRUE
    /\ Pop(Main)
    /\ UNCHANGED <<variant, clock, ended, loc, lock, exc, hw, file, running,
                   channel_index, start_time, wake, ghost>>

\* time.sleep(CAPTURE_TIME) is entered
SleepBegin ==
    /\ Has(Main, "sleep_begin")
    /\ wake' = clock + CAPTURE_TIME
    /\ Pop(Main)
    /\ UNCHANGED <<variant, clock, ended, loc, lock, exc, hw, file, running,
                   channel_index, start_time, registered, ghost>>

\* time.sleep(CAPTURE_TIME) returns, no earlier than CAPTURE_TIME later
SleepWait ==
    /\ Has(Main, "sleep_wait")
    /\ clock >= wake
    /\ Pop(Main)
    /\ UNCHANGED <<variant, clock, ended, loc, lock, exc, hw, file, sess, ghost>>

\* running = False (after the capture, and in "except KeyboardInterrupt")
RunningFalse ==
    /\ Has(Main, "running_false")
    /\ running' = FALSE
    /\ Pop(Main)
    /\ UNCHANGED <<variant, clock, ended, loc, lock, exc, hw, file,
                   channel_index, start_time, wake, registered, ghost>>

\* GPIO.remove_event_detect(DRDY_PIN): no later edge calls the callback; a
\* callback already called runs on.
RemoveEventDetect ==
    /\ Has(Main, "remove_event_detect")
    /\ registered' = FALSE
    /\ Pop(Main)
    /\ UNCHANGED <<variant, clock, ended, loc, lock, exc, hw, file, running,
                   channel_index, start_time, wake, ghost>>

\* bf.close(), or the exit of "with open(bin_file, 'wb') as bf"
BfClose ==
    /\ Has(Main, "bf_close")
    /\ bf' = "closed"
    /\ Pop(Main)
    /\ UNCHANGED <<variant, clock, ended, loc, lock, exc, hw, log, sess, ghost>>

\* find_and_mount_usb() / find_usb_mount(): a drive is found or not; with
\* none, the "if usb_mount:" branch is skipped.
FindUsb ==
    /\ Has(Main, "find_usb")
    /\ exports' = exports + 1
    /\ \E found \in BOOLEAN :
          q' = [q EXCEPT ![Main] =
                  IF found THEN Tail(@)
                  ELSE SubSeq(@, 2 + Arg(Main)[1], Len(@))]
    /\ UNCHANGED <<variant, clock, ended, loc, lock, exc, hw, file, sess,
                   failed, spins, edges, hwlog>>

\* while (time.time() - start_time) < CAPTURE_TIME:
LoopCheck ==
    /\ Has(Main, "loop_check")
    /\ IF Elapsed(clock, start_time) < CAPTURE_TIME
       THEN /\ Len(log) < MaxRecords
            /\ q' = [q EXCEPT ![Main] = Capture_loop_body \o @]
       ELSE Pop(Main)
    /\ UNCHANGED <<variant, clock, ended, loc, lock, exc, hw, file, sess, ghost>>

\* while GPIO.input(DRDY_PIN): pass
wait_drdy ==
    /\ Has(Main, "wait_drdy")
    /\ IF drdy = HIGH
       THEN /\ spins' = IF spins > MaxSpinCount THEN spins ELSE spins + 1
            /\ UNCHANGED q
       ELSE /\ spins' = 0
            /\ Pop(Main)
    /\ UNCHANGED <<variant, clock, ended, loc, lock, exc, hw, file, sess,
                   failed, edges, exports, hwlog>>

\* bf.write(struct.pack("<fiii", t, s1, s2, s3))
WriteFiii ==
    /\ Has(Main, "write_fiii")
    /\ bf = "open"
    /\ log' = Append(log, <<Float32(loc[Main].t), loc[Main].s[1],
                            loc[Main].s[2], loc[Main].s[3]>>)
    /\ loc' = [loc EXCEPT ![Main] = NoLocals]
    /\ Pop(Main)
    /\ UNCHANGED <<variant, clock, ended, lock, exc, hw, bf, sess, ghost>>

\* spi.close()
SpiClose ==
    /\ Has(Main, "spi_close")
    /\ spi' = "closed"
    /\ Pop(Main)
    /\ UNCHANGED <<variant, clock, ended, loc, lock, exc, cs, rst, drdy, mux,
                   stage, gpio, file, sess, ghost>>

\* GPIO.cleanup(): also drops the event detection.
GpioCleanup ==
    /\ Has(Main, "gpio_cleanup")
    /\ gpio' = "cleaned"
    /\ registered' = FALSE
    /\ Pop(Main)
    /\ UNCHANGED <<variant, clock, ended, loc, lock, exc, cs, rst, drdy, mux,
                   stage, spi, file, running, channel_index, start_time, wake,
                   ghost>>

\* The main program ends; a pending exception other than KeyboardInterrupt
\* goes on to the caller.
Exit ==
    /\ Has(Main, "exit")
    /\ ended' = TRUE
    /\ Pop(Main)
    /\ UNCHANGED <<variant, clock, loc, lock, exc, hw, file, sess, ghost>>

\* ------------------------------------------------------------- environment
\* The main thread has executed "start_time = time.time()".
Started == \A i \in 1..Len(q[Main]) : q[Main][i].op # "set_start"

\* Time passes.  Before the session starts the clock ticks up to MaxStart.
\* Afterwards it moves to the next instant the program can tell apart: the
\* last tick before CAPTURE_TIME has elapsed, then tick by tick to MaxClock.
NextInstant ==
    IF Started /\ clock - start_time < CAPTURE_TIME - 1
    THEN start_time + CAPTURE_TIME - 1
    ELSE clock + 1

Tick ==
    /\ ~ended
    /\ clock < (IF Started THEN MaxClock ELSE MaxStart)
    /\ NextInstant <= MaxClock
    /\ clock' = NextInstant
    /\ UNCHANGED <<variant, ended, ctl, hw, file, sess, ghost>>

\* The device finishes a conversion: DRDY goes low.
DrdyFall ==
    /\ variant = "poll"
    /\ ~ended
    /\ drdy = HIGH
    /\ drdy' = LOW
    /\ UNCHANGED <<variant, clock, ended, ctl, cs, rst, mux, stage, spi, gpio,
                   file, sess, ghost>>

\* Ctrl-C while the main thread is in the try-body.
KeyboardInterrupt ==
    /\ InTry
    /\ Throw(Main, "kbd")
    /\ UNCHANGED <<variant, clock, ended, hw, file, sess, ghost>>

\* ------------------------------------------------------------ specification
Step(c) ==
    \/ GpioOut(c) \/ GpioOutCleaned(c)
    \/ Xfer(c) \/ XferClosed(c)
    \/ Sleep(c) \/ Skip(c) \/ Decode(c) \/ Stamp(c)
    \/ CheckRunning(c) \/ Acquire(c) \/ WriteFii(c) \/ WriteClosed(c)
    \/ IncrChannel(c) \/ CallSetMux(c) \/ Release(c)

MainStep ==
    \/ Open \/ SetStart \/ AddEventDetect \/ SleepBegin \/ SleepWait
    \/ RunningFalse \/ RemoveEventDetect \/ BfClose \/ FindUsb
    \/ LoopCheck \/ wait_drdy \/ WriteFiii
    \/ SpiClose \/ GpioCleanup \/ Exit

Next ==
    \/ \E c \in Ctx : Step(c)
    \/ \E c \in Callbacks : Edge(c)
    \/ MainStep
    \/ Tick
    \/ DrdyFall
    \/ KeyboardInterrupt

\* The programs with a device that answers every transfer.
Spec == Init /\ [][Next]_vars

\* The programs with a bus on which one transfer of the live session may fail.
NextFault ==
    \/ Next
    \/ \E c \in Ctx : XferFault(c)

SpecFault == Init /\ [][NextFault]_vars

\* ------------------------------------------- one sample read, any reply
\* Bytes the device may shift out: the ends of the range, both sides of the
\* sign bit, and the bytes of the conversions above.
ReplyBytes == {0, 1, 44, 56, 100, 127, 128, 129, 254, 255}

\* raw = spi.xfer2([0x00, 0x00, 0x00]) with a device that may answer any three
\* bytes; every other transfer is as in Xfer.
XferAny(c) ==
    /\ Has(c, "xfer")
    /\ spi = "open"
    /\ mux' = DeviceMux(Arg(c))
    /\ drdy' = DeviceDrdy(Arg(c))
    /\ stage' = DeviceStage(Arg(c))
    /\ \E b0 \in ReplyBytes : \E b1 \in ReplyBytes : \E b2 \in ReplyBytes :
          loc' = [loc EXCEPT ![c].rx = IF Arg(c) = <<0, 0, 0>>
                                       THEN <<b0, b1, b2>> ELSE @]
    /\ hwlog' = Record("tx", 0, Arg(c))
    /\ Pop(c)
    /\ UNCHANGED <<variant, clock, ended, lock, exc, cs, rst, spi, gpio, file,
                   sess, failed, spins, edges, exports>>

\* One call of read_continuous_raw() (ads1256_logger.py) or read_data()
\* (Capture.py) on an initialised device.
InitRead ==
    /\ variant \in {"irq", "poll"}
    /\ clock = 0
    /\ q = [c \in Ctx |-> IF c = Main
                          THEN (IF variant = "irq" THEN read_continuous_raw
                                                   ELSE read_data)
                          ELSE <<>>]
    /\ loc = [c \in Ctx |-> NoLocals]
    /\ lock = {}
    /\ exc = "none"
    /\ ended = FALSE
    /\ cs = HIGH
    /\ rst = HIGH
    /\ drdy = HIGH
    /\ mux = MuxOf(<<0, 1>>)
    /\ stage = "other"
    /\ spi = "open"
    /\ gpio = "ready"
    /\ bf = "none"
    /\ log = <<>>
    /\ running = TRUE
    /\ channel_index = 0
    /\ start_time = 0
    /\ wake = 0
    /\ registered = FALSE
    /\ failed = FALSE
    /\ spins = 0
    /\ edges = <<>>
    /\ exports = 0
    /\ hwlog = <<>>

NextRead ==
    \/ GpioOut(Main)
    \/ XferAny(Main)
    \/ Sleep(Main)
    \/ Decode(Main)
    \/ wait_drdy
    \/ DrdyFall

SpecRead == InitRead /\ [][NextRead]_vars

\* ------------------------------------------------------------------ claims
NumChannels == Len(CHANNELS)

\* C1: in the interrupt-driven variant, once the main thread has cleared the
\* running flag, no step appends a record to the log.
C1_NoRecordAfterStop ==
    [][(variant = "irq" /\ ~running) => log' = log]_vars

\* The operations that read or write running, channel_index or bf.
SharedAccessOps ==
    {"check_running", "write_fii", "incr_channel", "call_set_mux",
     "running_false", "bf_close"}

\* C2: in the interrupt-driven variant, while callbacks can run, a context
\* about to read or write the running flag, the channel index or the log
\* handle holds the lock.
C2_SharedAccessUnderLock ==
    (variant = "irq" /\ registered) =>
        \A c \in Ctx :
            (q[c] # <<>> /\ Head(q[c]).op \in SharedAccessOps) => c \in lock

\* C3: when the main program has ended after a KeyboardInterrupt, the log it
\* opened is closed and the bus handle is released.
C3_CancelReleases ==
    (ended /\ exc = "kbd") => (bf # "open" /\ spi = "closed")

\* C4: in the interrupt-driven variant the k-th record of the log carries
\* channel index (k - 1) mod N, and outside the step between a record's write
\* and the increment, channel_index is (number of records) mod N: it is 0
\* again after every N firings.
C4_ChannelCycle ==
    variant = "irq" =>
        /\ \A k \in 1..Len(log) : log[k][2] = (k - 1) % NumChannels
        /\ (\A c \in Callbacks : ~Has(c, "incr_channel"))
               => channel_index = Len(log) % NumChannels

\* The channel index has gone through the whole set and is back at 0, with
\* the first record of the second round written.
C4_Witness ==
    /\ variant = "irq"
    /\ Len(log) = NumChannels + 1
    /\ log[NumChannels + 1][2] = 0
    /\ channel_index = 1

\* C5: every record of the log carries an elapsed time below CAPTURE_TIME.
C5_RecordsBeforeDeadline ==
    \A k \in 1..Len(log) : log[k][1] < CAPTURE_TIME

\* C6: the elapsed times of the records are non-decreasing in file order.
C6_NonDecreasing ==
    \A i \in 1..Len(log) : \A j \in 1..Len(log) :
        i < j => log[i][1] <= log[j][1]

\* Two callbacks were under way together (one blocked on the lock while the
\* other wrote) and the log holds records of different times.
C6_Witness ==
    /\ variant = "irq"
    /\ Len(log) >= 2
    /\ log[1][1] < log[Len(log)][1]
    /\ \E c \in Callbacks : Has(c, "acquire")
    /\ \E c \in Callbacks : Has(c, "incr_channel")

\* C7: wait_drdy polls a DRDY line that stays high at most MaxSpinCount times.
C7_WaitBounded ==
    spins <= MaxSpinCount

\* C8: after a bus transfer has failed, no context attempts a further transfer
\* or record write, and when the main program has ended the running flag is
\* cleared (interrupt-driven variant), the log is closed and the failure has
\* reached the caller.
C8_FailureAborts ==
    failed =>
        /\ \A c \in Ctx :
               ~(q[c] # <<>> /\ Head(q[c]).op \in {"xfer", "write_fii", "write_fiii"})
        /\ ended => /\ variant = "irq" => ~running
                    /\ bf # "open"
                    /\ exc = "err"

\* The main thread is in the export handoff.
Exporting ==
    q[Main] # <<>> /\ Head(q[Main]).op \in {"find_usb", "copy", "eject"}

\* The polling loop has been left.
LoopExited == \A i \in 1..Len(q[Main]) : q[Main][i].op # "loop_check"

C10_OneRecordPerEdge ==
    variant = "irq" =>
        /\ Len(log) <= Len(edges)
        /\ \A k \in 1..Len(log) :
               log[k] = <<edges[k][1], (k - 1) % NumChannels, edges[k][2]>>
        /\ \/ Len(log) = Len(edges)
           \/ /\ Len(log) = Len(edges) - 1
              /\ \E c \in Callbacks : Has(c, "write_fii")

\* The value the claim gives for the reply bytes b: the big-endian 24-bit
\* number, less 2^24 when it is 2^23 or more.
TwosComplement24(b) ==
    LET v == b[1] * 65536 + b[2] * 256 + b[3]
    IN  IF v < 8388608 THEN v ELSE v - 16777216

\* C11: the step in which read_data / read_continuous_raw decodes the three
\* reply bytes (b0, b1, b2) yields the big-endian 24-bit two's-complement value
\* sign-extended from bit 23, and that value lies in -8388608..8388607.
C11_SignExtension ==
    [][\A c \in Ctx :
          (Has(c, "decode") /\ q'[c] = Tail(q[c])) =>
              /\ loc'[c].s = Append(loc[c].s, TwosComplement24(loc[c].rx))
              /\ loc'[c].s[Len(loc'[c].s)] \in -8388608..8388607]_vars

\* The reply 0xFFFFFF has been decoded to -1.
C11_Witness ==
    /\ loc[Main].rx = <<255, 255, 255>>
    /\ loc[Main].s = << -1 >>
    /\ q[Main] = <<>>

\* The names of the operations of a queue, in order.
OpNames(ops) == [i \in 1..Len(ops) |-> ops[i].op]

\* s is the end of t.
IsSuffix(s, t) ==
    /\ Len(s) <= Len(t)
    /\ SubSeq(t, Len(t) - Len(s) + 1, Len(t)) = s

\* What the claim says one invocation does: the flag check, the lock, one bus
\* read (a chip-select bracket and the decoding), one timestamp, one record
\* write, one increment, one call of the mux write, the lock released.
SectionOrder ==
    << "check_running", "acquire",
       "gpio_out", "xfer", "gpio_out", "decode",
       "stamp", "write_fii", "incr_channel", "call_set_mux", "release" >>

\* The same once the mux write has been entered: its chip-select bracket.
MuxWriteOrder == << "gpio_out", "xfer", "gpio_out", "release" >>

\* The callback context c is past the entry of its with-lock block.
InSection(c) ==
    q[c] # <<>> /\ Head(q[c]).op \notin {"check_running", "acquire"}

\* C12: in the interrupt-driven variant at most one callback holds the lock;
\* what an invocation still has to do is always the end of the sequence
\* (read, timestamp, write, increment, mux write), so that it does each once
\* and in this order; it is past the lock entry only while holding the lock;
\* the mux write it issues is the one for the new channel_index; and while
\* the running flag is set the log, the bus and the pins it uses are all
\* available, so none of the steps is cut short.
C12_CallbackSection ==
    variant = "irq" =>
        /\ Cardinality(lock) <= 1
        /\ lock \subseteq Callbacks
        /\ \A c \in Callbacks :
               q[c] # <<>> =>
                   /\ \/ IsSuffix(OpNames(q[c]), SectionOrder)
                      \/ IsSuffix(OpNames(q[c]), MuxWriteOrder)
                   /\ InSection(c) <=> c \in lock
                   /\ \A i \in 1..Len(q[c]) :
                          q[c][i].op = "xfer" =>
                              \/ q[c][i].arg = <<0, 0, 0>>
                              \/ q[c][i].arg =
                                    << BitOr(CMD_WREG, REG_MUX), 0,
                                       MuxOf(CHANNELS[channel_index + 1]) >>
                   /\ (InSection(c) /\ running) =>
                          (bf = "open" /\ spi = "open" /\ gpio = "ready")

\* One callback is at the end of its section, having written a record and
\* the mux register for the new channel index, with the session running and
\* another callback waiting for the lock.
C12_Witness ==
    /\ variant = "irq"
    /\ running
    /\ Len(log) >= 1
    /\ mux = MuxOf(CHANNELS[channel_index + 1])
    /\ channel_index = Len(log) % NumChannels
    /\ \E c \in Callbacks : Has(c, "release") /\ c \in lock
    /\ \E c \in Callbacks : Has(c, "acquire")

\* C13: a KeyboardInterrupt during the capture reaches the main thread only
\* with chip-select high and with no channel of a cycle read but not yet
\* written; and once the run is cancelled, a callback inside its critical
\* section still runs to the release of the lock.
C13_CancelAtBoundary ==
    [][/\ (exc = "none" /\ exc' = "kbd" /\ bf = "open") =>
              (cs = HIGH /\ loc[Main].s = <<>>)
       /\ exc' = "kbd" =>
              \A c \in Callbacks :
                  (InSection(c) /\ q'[c] = <<>>) => Has(c, "release")]_vars

\* Context c is inside a chip-select bracket: the next thing it does to the
\* chip-select line is to raise it.
InBracket(c) ==
    \E i \in 1..Len(q[c]) :
        /\ q[c][i] = GPIO_output(CS_PIN, HIGH)
        /\ \A j \in 1..(i - 1) :
               q[c][j].op # "gpio_out" \/ q[c][j].arg[1] # CS_PIN

\* Context c performs a bus transfer in this step.
Transfers(c) ==
    /\ Has(c, "xfer")
    /\ spi = "open"
    /\ q'[c] = Tail(q[c])

\* C14, the part about concurrency: a transfer is performed only with
\* chip-select low and by a context inside its own bracket, and no two
\* contexts are inside a bracket at once.
C14_OneBracketAtATime ==
    [][/\ \A c \in Ctx : Transfers(c) => (cs = LOW /\ InBracket(c))
       /\ \A c \in Ctx : \A d \in Ctx :
              (InBracket(c) /\ InBracket(d)) => c = d]_vars

\* Context c is inside a bracket and has transferred in it: what it does
\* next is no longer the (first) transfer of the bracket.
Transferred(c) == InBracket(c) /\ Head(q[c]).op # "xfer"

\* C14: as above, and a context that has transferred leaves its bracket only
\* by raising chip-select: every transfer is followed by chip-select high.
C14_BracketedTransfers ==
    [][/\ \A c \in Ctx : Transfers(c) => (cs = LOW /\ InBracket(c))
       /\ \A c \in Ctx : \A d \in Ctx :
              (InBracket(c) /\ InBracket(d)) => c = d
       /\ \A c \in Ctx :
              (Transferred(c) /\ ~InBracket(c)') => cs' = HIGH]_vars

\* What the device has seen, without the waits shorter than 100 ms (the
\* command gaps of write_reg and send_cmd).
LongWaits(h) ==
    SelectSeq(h, LAMBDA e : ~(e.ev = "wait" /\ e.n < 100000))

\* The order the claim gives, for the data rate of the variant.
InitOrder(drate) ==
    << [ev |-> "rst", n |-> LOW, data |-> <<>>],
       [ev |-> "wait", n |-> 100000, data |-> <<>>],
       [ev |-> "rst", n |-> HIGH, data |-> <<>>],
       [ev |-> "wait", n |-> 100000, data |-> <<>>],
       [ev |-> "tx", n |-> 0, data |-> << CMD_RESET >>],
       [ev |-> "wait", n |-> 100000, data |-> <<>>],
       [ev |-> "tx", n |-> 0, data |-> << CMD_WREG + REG_STATUS, 0, 4 >>],
       [ev |-> "tx", n |-> 0, data |-> << CMD_WREG + REG_ADCON, 0, GAIN >>],
       [ev |-> "tx", n |-> 0, data |-> << CMD_WREG + REG_DRATE, 0, drate >>] >>

\* The transfers that sample: read data, read data continuously, and the
\* three bytes that clock a result out.
SamplingTransfers == { << CMD_RDATA >>, << CMD_RDATAC >>, <<0, 0, 0>> }

\* C15: what the device sees first is, in this order, reset low, a wait,
\* reset high, a wait, the RESET command, a wait, then the writes of STATUS,
\* ADCON (gain) and DRATE; and a context about to issue a sampling transfer
\* finds the DRATE write already made.
C15_InitOrder ==
    LET seen == LongWaits(hwlog)
        order == InitOrder(IF variant = "irq" THEN DRATE_3750SPS
                                              ELSE DRATE_1000SPS)
        n == IF Len(seen) < Len(order) THEN Len(seen) ELSE Len(order)
    IN  /\ SubSeq(seen, 1, n) = SubSeq(order, 1, n)
        /\ \A c \in Ctx :
               (Has(c, "xfer") /\ Arg(c) \in SamplingTransfers) =>
                   \E i \in 1..Len(hwlog) :
                       /\ hwlog[i].ev = "tx"
                       /\ Len(hwlog[i].data) = 3
                       /\ hwlog[i].data[1] = CMD_WREG + REG_DRATE

\* The device has seen the whole initialisation and a record of a sample
\* read afterwards has been written.
C15_Witness ==
    /\ Len(LongWaits(hwlog)) >= 9
    /\ Len(log) >= 1

\* The pairs of read_all_channels, in its order.
PollPairs == << <<0, 1>>, <<2, 3>>, <<4, 5>> >>

\* C16: in the polling variant, on entry of each read_data the MUX register
\* holds (pos << 4) | neg of the pair just selected and the device has
\* received, since that write, SYNC and then WAKEUP and nothing else.  In the
\* interrupt-driven variant the device never gets a SYNC or WAKEUP selection
\* step, a MUX write leaves (pos << 4) | neg of CHANNELS[channel_index] in the
\* register, and the transfer that follows it is the read of a result.
C16_ChannelSelect ==
    /\ (variant = "poll" /\ Has(Main, "wait_drdy")) =>
           LET pair == PollPairs[Len(loc[Main].s) + 1]
           IN  /\ mux = pair[1] * 16 + pair[2]
               /\ stage = "wakeup"
    /\ variant = "irq" =>
           /\ stage \notin {"sync", "wakeup"}
           /\ stage = "mux" =>
                  /\ mux = CHANNELS[channel_index + 1][1] * 16
                           + CHANNELS[channel_index + 1][2]
                  /\ \A c \in Ctx :
                         (Has(c, "xfer") /\ spi = "open") => Arg(c) = <<0, 0, 0>>

\* Polling: the third pair is selected and about to be read.  Interrupt-
\* driven: a callback has selected the second pair with the mux write alone.
C16_Witness ==
    \/ /\ variant = "poll"
       /\ Has(Main, "wait_drdy")
       /\ Len(loc[Main].s) = 2
       /\ mux = 69
    \/ /\ variant = "irq"
       /\ \E c \in Callbacks : Has(c, "release")
       /\ stage = "mux"
       /\ mux = 35

\* What the device converts on the pairs (0,1), (2,3), (4,5), in this order.
CycleSamples == << 100, -200, 300 >>

\* s is the beginning of t.
IsPrefix(s, t) ==
    /\ Len(s) <= Len(t)
    /\ SubSeq(t, 1, Len(s)) = s

\* C17: in the polling variant every record is one timestamp, no later than
\* the time elapsed, followed by the three values of one cycle, each the
\* conversion of its own pair, in the order (0,1), (2,3), (4,5); the values
\* read so far in the cycle under way are those of the first pairs, in
\* order; and a record is about to be written only with all three read.
C17_RecordPerCycle ==
    variant = "poll" =>
        /\ \A k \in 1..Len(log) :
               /\ Len(log[k]) = 4
               /\ log[k][1] <= Elapsed(clock, start_time)
               /\ << log[k][2], log[k][3], log[k][4] >> = CycleSamples
        /\ IsPrefix(loc[Main].s, CycleSamples)
        /\ Has(Main, "write_fiii") => loc[Main].s = CycleSamples

\* Two cycles have been recorded and a third has read its first two pairs.
C17_Witness ==
    /\ variant = "poll"
    /\ Len(log) = 2
    /\ log[2][2] = 100 /\ log[2][3] = -200 /\ log[2][4] = 300
    /\ Len(loc[Main].s) = 2

\* C18: in the interrupt-driven variant, while event detection is in force
\* and the bus is open, whenever no callback is inside its critical section
\* the MUX register selects the pair CHANNELS[channel_index]; and the sample
\* of every record is the conversion of the pair of the index it carries.
C18_MuxMatchesIndex ==
    variant = "irq" =>
        /\ (registered /\ spi = "open" /\ \A c \in Callbacks : ~InSection(c)) =>
               mux = MuxOf(CHANNELS[channel_index + 1])
        /\ \A k \in 1..Len(log) : log[k][3] = CycleSamples[log[k][2] + 1]

\* Callback c uses, in this step, a resource the main thread has released:
\* it writes to the closed log, transfers on the closed bus, or drives a pin
\* after the cleanup (the call raises and ends the callback).
UsesReleased(c) ==
    /\ q[c] # <<>>
    /\ q'[c] = <<>>
    /\ \/ Head(q[c]).op = "write_fii" /\ bf = "closed"
       \/ Head(q[c]).op = "xfer" /\ spi = "closed"
       \/ Head(q[c]).op = "gpio_out" /\ gpio = "cleaned"

\* C19: in the interrupt-driven variant no callback ever writes to the log
\* after bf.close(), nor performs a step of a bus transfer after spi.close()
\* or GPIO.cleanup().
C19_NoUseAfterRelease ==
    [][variant = "irq" => \A c \in Callbacks : ~UsesReleased(c)]_vars

\* C20: chip-select is high whenever no context is inside the chip-select
\* bracket of a driver function; in particular when the program has ended
\* or is in the export with no callback still in a bracket.
C20_ChipSelectIdleHigh ==
    (\A c \in Ctx : ~InBracket(c)) => cs = HIGH

====
